---- MODULE Spec2Model ----
(***************************************************************************)
(* Multi-threaded computation of the decimal digits of pi                  *)
(* (CS3100_Assn5/main.cpp): a task queue (TaskList), a result table        *)
(* (PieTable), the worker loop (threadFunction) and main.                  *)
(***************************************************************************)
EXTENDS Integers, Sequences, FiniteSets, TLC

(* ------------------------------ bounds -------------------------------- *)
\* numDigitsPie ranges over 1..MaxDigits (the program fixes it at 1000).
MaxDigits == 3
\* std::thread::hardware_concurrency() ranges over 0..MaxThreads.
MaxThreads == 2
\* how many pops of an empty container are followed before the run is cut
\* off by the crash outcome.
MaxOverrun == 1
\* values stored by the stand-alone table operations range over 0..MaxValue.
MaxValue == 2

Workers == 0 .. (MaxThreads - 1)

\* What front() may yield on an empty container: the slot past the last
\* element was never written, so any int. Three representatives: 0 (fresh
\* zeroed memory), 1 (the id of a task that was pushed) and MaxDigits (an id
\* that is never pushed).
Garbage == {0, 1, MaxDigits}

VARIABLES
    numDigitsPie,   \* main: int numDigitsPie
    numThreads,     \* main: int numThreads
    pcMain,         \* main's position
    i,              \* main's loop counter
    piQueue,        \* TaskList::piQueue: [items: Seq(Int), overrun: Nat]
    queueMutex,     \* TaskList::queueMutex: the set of threads holding it
    pieMap,         \* PieTable::pieMap: a function key -> value
    hashMutex,      \* PieTable::hashMutex: the set of threads holding it
    pc,             \* each worker's position in threadFunction
    taskTemp,       \* each worker's local Task taskTemp (its id)
    pieIndex,       \* each worker's local pieIndex
    pieNumber,      \* each worker's local pieNumber
    cout,           \* the tokens written to std::cout, in order
    crashed,        \* the process was killed by an invalid container access
    popLog,         \* history: the task each pop call took, in order
    insLog,         \* history: the keys passed to insertValue, in order
    lastCall,       \* history: the last PieTable operation and its result
    prevCall,       \* history: the PieTable operation before the last one
    unmatched       \* history: per worker, markers written minus tasks removed

vars == << numDigitsPie, numThreads, pcMain, i, piQueue, queueMutex, pieMap,
           hashMutex, pc, taskTemp, pieIndex, pieNumber, cout, crashed,
           popLog, insLog, lastCall, prevCall, unmatched >>

(* --------------------------- digit computation ------------------------ *)
\* The first decimal digits of pi: computePiDigit(n) is the n-th of them.
PiDigits == << 1, 4, 1, 5, 9, 2, 6, 5, 3, 5 >>

\* computePiDigit(n): the n-th decimal digit; for n <= -20 the outer loop
\* does not run (2*N <= 0) and the result is 0.
computePiDigit(n) ==
    IF n \in 1 .. Len(PiDigits) THEN PiDigits[n] ELSE 0

\* pow_mod(10, n - 1, av) never leaves its loop for a negative exponent
\* (b >> 1 stays -1), so computePiDigit(n) does not return for -20 < n < 1.
computeHangs(n) == n > -20 /\ n < 1

(* ------------------------------ TaskList ------------------------------ *)
EmptyQueue == [items |-> << >>, overrun |-> 0]

\* mutant: the task is put at the head (a stack instead of a queue)
pushFront(q, task) == [q EXCEPT !.items = << task >> \o q.items]

\* TaskList::push -> std::queue::push: append at the tail.
push(q, task) == [q EXCEPT !.items = Append(q.items, task)]

\* TaskList::isEmpty -> std::queue::empty: after a pop of an empty container
\* its size has wrapped and it no longer reports empty.
isEmpty(q) == q.items = << >> /\ q.overrun = 0

\* TaskList::getTask -> std::queue::front: the set of values it may return;
\* on an empty container the read is of memory no push has written.
getTask(q) == IF q.items # << >> THEN {Head(q.items)} ELSE Garbage

\* TaskList::pop -> std::queue::pop: removes the head; on an empty container
\* the start cursor moves past the end.
pop(q) ==
    IF q.items # << >>
    THEN [q EXCEPT !.items = Tail(q.items)]
    ELSE [q EXCEPT !.overrun = q.overrun + 1]

(* ------------------------------ PieTable ------------------------------ *)
EmptyMap == [k \in {} |-> 0]

\* mutant: key and value swapped in the inserted pair
insertValueSwapped(m, key, value) ==
    IF value \in DOMAIN m THEN m ELSE m @@ (value :> key)

\* mutant: the entry is assigned, replacing an existing value
insertOrAssign(m, key, value) ==
    [k \in DOMAIN m \cup {key} |-> IF k = key THEN value ELSE m[k]]

\* mutant: the call returns without adding anything
insertValueDropped(m, key, value) == m

\* PieTable::insertValue -> unordered_map::insert: adds the pair only when
\* the key is absent; an existing entry is left as it is.
insertValue(m, key, value) ==
    IF key \in DOMAIN m THEN m ELSE m @@ (key :> value)

\* mutant: the entry is removed by the read that returns it
getErasing(m, index) ==
    [map |-> [k \in DOMAIN m \ {index} |-> m[k]],
     ret |-> IF index \in DOMAIN m THEN m[index] ELSE 0,
     threw |-> FALSE]

\* PieTable::get -> unordered_map::operator[]: an absent key is first added
\* with the value-initialised value 0; the mapped value is returned and no
\* exception is thrown.
get(m, index) ==
    LET m2 == IF index \in DOMAIN m THEN m ELSE m @@ (index :> 0)
    IN  [map |-> m2, ret |-> m2[index], threw |-> FALSE]

NoCall == [op |-> "none", key |-> 0, value |-> 0, had |-> FALSE, old |-> 0,
           ret |-> 0, threw |-> FALSE]

\* the record of an insertValue(key, value) call on table m
InsertCall(m, key, value) ==
    [op |-> "insert", key |-> key, value |-> value,
     had |-> key \in DOMAIN m,
     old |-> IF key \in DOMAIN m THEN m[key] ELSE 0,
     ret |-> 0, threw |-> FALSE]

\* the record of a get(index) call on table m
GetCall(m, index) ==
    [op |-> "get", key |-> index, value |-> 0,
     had |-> index \in DOMAIN m,
     old |-> IF index \in DOMAIN m THEN m[index] ELSE 0,
     ret |-> get(m, index).ret, threw |-> get(m, index).threw]

(* -------------------------------- main -------------------------------- *)
\* mutant: the threads are created before the queue is populated
InitThreadsFirst ==
    /\ numDigitsPie \in 1 .. MaxDigits
    /\ numThreads \in 0 .. MaxThreads
    /\ pcMain = "load"
    /\ i = 1
    /\ piQueue = EmptyQueue
    /\ queueMutex = {}
    /\ pieMap = EmptyMap
    /\ hashMutex = {}
    /\ pc = [w \in Workers |-> IF w < numThreads THEN "test" ELSE "idle"]
    /\ taskTemp = [w \in Workers |-> 0]
    /\ pieIndex = [w \in Workers |-> 0]
    /\ pieNumber = [w \in Workers |-> 0]
    /\ cout = << >>
    /\ crashed = FALSE
    /\ popLog = << >>
    /\ insLog = << >>
    /\ lastCall = NoCall
    /\ prevCall = NoCall
    /\ unmatched = [w \in Workers |-> 0]

Init ==
    /\ numDigitsPie \in 1 .. MaxDigits
    /\ numThreads \in 0 .. MaxThreads
    /\ pcMain = "load"
    /\ i = 1
    /\ piQueue = EmptyQueue
    /\ queueMutex = {}
    /\ pieMap = EmptyMap
    /\ hashMutex = {}
    /\ pc = [w \in Workers |-> "idle"]
    /\ taskTemp = [w \in Workers |-> 0]
    /\ pieIndex = [w \in Workers |-> 0]
    /\ pieNumber = [w \in Workers |-> 0]
    /\ cout = << >>
    /\ crashed = FALSE
    /\ popLog = << >>
    /\ insLog = << >>
    /\ lastCall = NoCall
    /\ prevCall = NoCall
    /\ unmatched = [w \in Workers |-> 0]

\* for (int i = 1; i < numDigitsPie; i++) taskList.push(Task{i});
Load ==
    /\ ~crashed /\ pcMain = "load" /\ i < numDigitsPie
    /\ piQueue' = push(piQueue, i)
    /\ i' = i + 1
    /\ UNCHANGED << numDigitsPie, numThreads, pcMain, queueMutex, pieMap,
                    hashMutex, pc, taskTemp, pieIndex, pieNumber, cout,
                    crashed, popLog, insLog, lastCall, prevCall, unmatched >>

\* the load loop ends; threads = new std::thread[numThreads]
LoadDone ==
    /\ ~crashed /\ pcMain = "load" /\ ~(i < numDigitsPie)
    /\ pcMain' = "spawn"
    /\ i' = 0
    /\ UNCHANGED << numDigitsPie, numThreads, piQueue, queueMutex, pieMap,
                    hashMutex, pc, taskTemp, pieIndex, pieNumber, cout,
                    crashed, popLog, insLog, lastCall, prevCall, unmatched >>

\* threads[i] = std::thread(threadFunction, i)
Spawn ==
    /\ ~crashed /\ pcMain = "spawn" /\ i < numThreads
    /\ pc' = [pc EXCEPT ![i] = "test"]
    /\ i' = i + 1
    /\ UNCHANGED << numDigitsPie, numThreads, pcMain, piQueue, queueMutex,
                    pieMap, hashMutex, taskTemp, pieIndex, pieNumber, cout,
                    crashed, popLog, insLog, lastCall, prevCall, unmatched >>

SpawnDone ==
    /\ ~crashed /\ pcMain = "spawn" /\ ~(i < numThreads)
    /\ pcMain' = "join"
    /\ i' = 0
    /\ UNCHANGED << numDigitsPie, numThreads, piQueue, queueMutex, pieMap,
                    hashMutex, pc, taskTemp, pieIndex, pieNumber, cout,
                    crashed, popLog, insLog, lastCall, prevCall, unmatched >>

\* mutant: join returns without waiting for the thread
JoinableAtOnce(t) == TRUE

\* std::thread::join returns once the thread's function has returned
Joinable(t) == pc[t] = "done"

\* threads[i].join()
Join ==
    /\ ~crashed /\ pcMain = "join" /\ i < numThreads
    /\ Joinable(i)
    /\ i' = i + 1
    /\ UNCHANGED << numDigitsPie, numThreads, pcMain, piQueue, queueMutex,
                    pieMap, hashMutex, pc, taskTemp, pieIndex, pieNumber,
                    cout, crashed, popLog, insLog, lastCall, prevCall,
                    unmatched >>

\* the join loop ends; std::cout << "\n3."
JoinDone ==
    /\ ~crashed /\ pcMain = "join" /\ ~(i < numThreads)
    /\ cout' = Append(cout, "\n3.")
    /\ pcMain' = "render"
    /\ i' = 1
    /\ UNCHANGED << numDigitsPie, numThreads, piQueue, queueMutex, pieMap,
                    hashMutex, pc, taskTemp, pieIndex, pieNumber, crashed,
                    popLog, insLog, lastCall, prevCall, unmatched >>

\* mutant: the print loop runs from the last index down
RenderIndexDescending(k) == numDigitsPie - k

\* the index the k-th iteration of the print loop reads
RenderIndex(k) == k

\* for (int i = 1; i < numDigitsPie; i++) std::cout << pieTable.get(i);
Render ==
    /\ ~crashed /\ pcMain = "render" /\ i < numDigitsPie
    /\ LET r == get(pieMap, RenderIndex(i))
       IN  /\ pieMap' = r.map
           /\ cout' = Append(cout, ToString(r.ret))
    /\ lastCall' = GetCall(pieMap, RenderIndex(i))
    /\ prevCall' = lastCall
    /\ i' = i + 1
    /\ UNCHANGED << numDigitsPie, numThreads, pcMain, piQueue, queueMutex,
                    hashMutex, pc, taskTemp, pieIndex, pieNumber, crashed,
                    popLog, insLog, unmatched >>

\* std::cout << std::endl; return 0;
RenderDone ==
    /\ ~crashed /\ pcMain = "render" /\ ~(i < numDigitsPie)
    /\ cout' = Append(cout, "\n")
    /\ pcMain' = "done"
    /\ UNCHANGED << numDigitsPie, numThreads, i, piQueue, queueMutex, pieMap,
                    hashMutex, pc, taskTemp, pieIndex, pieNumber, crashed,
                    popLog, insLog, lastCall, prevCall, unmatched >>

Main ==
    \/ Load \/ LoadDone \/ Spawn \/ SpawnDone
    \/ Join \/ JoinDone \/ Render \/ RenderDone

(* --------------------------- threadFunction --------------------------- *)
\* while (!taskList.isEmpty()): the test, made without the queue mutex
Test(w) ==
    /\ ~crashed /\ pc[w] = "test"
    /\ pc' = [pc EXCEPT ![w] = IF isEmpty(piQueue) THEN "done" ELSE "mark"]
    /\ UNCHANGED << numDigitsPie, numThreads, pcMain, i, piQueue, queueMutex,
                    pieMap, hashMutex, taskTemp, pieIndex, pieNumber, cout,
                    crashed, popLog, insLog, lastCall, prevCall, unmatched >>

\* std::cout.flush(); std::cout << ".";
Mark(w) ==
    /\ ~crashed /\ pc[w] = "mark"
    /\ cout' = Append(cout, ".")
    /\ unmatched' = [unmatched EXCEPT ![w] = @ + 1]
    /\ pc' = [pc EXCEPT ![w] = "lock"]
    /\ UNCHANGED << numDigitsPie, numThreads, pcMain, i, piQueue, queueMutex,
                    pieMap, hashMutex, taskTemp, pieIndex, pieNumber, crashed,
                    popLog, insLog, lastCall, prevCall >>

\* taskList.lock()
Lock(w) ==
    /\ ~crashed /\ pc[w] = "lock"
    /\ queueMutex = {}
    /\ queueMutex' = {w}
    /\ pc' = [pc EXCEPT ![w] = "front"]
    /\ UNCHANGED << numDigitsPie, numThreads, pcMain, i, piQueue, pieMap,
                    hashMutex, taskTemp, pieIndex, pieNumber, cout, crashed,
                    popLog, insLog, lastCall, prevCall, unmatched >>

\* Task taskTemp = taskList.getTask();
Front(w) ==
    /\ ~crashed /\ pc[w] = "front"
    /\ \E t \in getTask(piQueue) : taskTemp' = [taskTemp EXCEPT ![w] = t]
    /\ pc' = [pc EXCEPT ![w] = "pop"]
    /\ UNCHANGED << numDigitsPie, numThreads, pcMain, i, piQueue, queueMutex,
                    pieMap, hashMutex, pieIndex, pieNumber, cout, crashed,
                    popLog, insLog, lastCall, prevCall, unmatched >>

\* taskList.pop(): the container is left as pop leaves it
Pop(w) ==
    /\ ~crashed /\ pc[w] = "pop"
    /\ piQueue.overrun < MaxOverrun \/ piQueue.items # << >>
    /\ piQueue' = pop(piQueue)
    /\ popLog' = Append(popLog, [id |-> taskTemp[w],
                                 valid |-> piQueue.items # << >>])
    /\ unmatched' = [unmatched EXCEPT
                         ![w] = IF piQueue.items # << >> THEN @ - 1 ELSE @]
    /\ pc' = [pc EXCEPT ![w] = "unlock"]
    /\ UNCHANGED << numDigitsPie, numThreads, pcMain, i, queueMutex, pieMap,
                    hashMutex, taskTemp, pieIndex, pieNumber, cout, crashed,
                    insLog, lastCall, prevCall >>

\* taskList.pop() on an empty container: the invalid access ends the process
PopCrash(w) ==
    /\ ~crashed /\ pc[w] = "pop"
    /\ piQueue.items = << >>
    /\ crashed' = TRUE
    /\ UNCHANGED << numDigitsPie, numThreads, pcMain, i, piQueue, queueMutex,
                    pieMap, hashMutex, pc, taskTemp, pieIndex, pieNumber,
                    cout, popLog, insLog, lastCall, prevCall, unmatched >>

\* mutant: the worker goes on without releasing the queue mutex
UnlockKeeps(w) ==
    /\ ~crashed /\ pc[w] = "unlock"
    /\ pc' = [pc EXCEPT ![w] = "compute"]
    /\ UNCHANGED << numDigitsPie, numThreads, pcMain, i, piQueue, queueMutex,
                    pieMap, hashMutex, taskTemp, pieIndex, pieNumber, cout,
                    crashed, popLog, insLog, lastCall, prevCall, unmatched >>

\* taskList.unlock()
Unlock(w) ==
    /\ ~crashed /\ pc[w] = "unlock"
    /\ queueMutex' = queueMutex \ {w}
    /\ pc' = [pc EXCEPT ![w] = "compute"]
    /\ UNCHANGED << numDigitsPie, numThreads, pcMain, i, piQueue, pieMap,
                    hashMutex, taskTemp, pieIndex, pieNumber, cout, crashed,
                    popLog, insLog, lastCall, prevCall, unmatched >>

\* int pieIndex = taskTemp.id; int pieNumber = taskTemp.computePi();
Compute(w) ==
    /\ ~crashed /\ pc[w] = "compute"
    /\ ~computeHangs(taskTemp[w])
    /\ pieIndex' = [pieIndex EXCEPT ![w] = taskTemp[w]]
    /\ pieNumber' = [pieNumber EXCEPT ![w] = computePiDigit(taskTemp[w])]
    /\ pc' = [pc EXCEPT ![w] = "hlock"]
    /\ UNCHANGED << numDigitsPie, numThreads, pcMain, i, piQueue, queueMutex,
                    pieMap, hashMutex, taskTemp, cout, crashed, popLog,
                    insLog, lastCall, prevCall, unmatched >>

\* pieTable.lock()
HLock(w) ==
    /\ ~crashed /\ pc[w] = "hlock"
    /\ hashMutex = {}
    /\ hashMutex' = {w}
    /\ pc' = [pc EXCEPT ![w] = "insert"]
    /\ UNCHANGED << numDigitsPie, numThreads, pcMain, i, piQueue, queueMutex,
                    pieMap, taskTemp, pieIndex, pieNumber, cout, crashed,
                    popLog, insLog, lastCall, prevCall, unmatched >>

\* pieTable.insertValue(pieIndex, pieNumber)
Insert(w) ==
    /\ ~crashed /\ pc[w] = "insert"
    /\ pieMap' = insertValue(pieMap, pieIndex[w], pieNumber[w])
    /\ insLog' = Append(insLog, pieIndex[w])
    /\ lastCall' = InsertCall(pieMap, pieIndex[w], pieNumber[w])
    /\ prevCall' = lastCall
    /\ pc' = [pc EXCEPT ![w] = "hunlock"]
    /\ UNCHANGED << numDigitsPie, numThreads, pcMain, i, piQueue, queueMutex,
                    hashMutex, taskTemp, pieIndex, pieNumber, cout, crashed,
                    popLog, unmatched >>

\* pieTable.unlock(); the iteration's locals go out of scope
HUnlock(w) ==
    /\ ~crashed /\ pc[w] = "hunlock"
    /\ hashMutex' = hashMutex \ {w}
    /\ taskTemp' = [taskTemp EXCEPT ![w] = 0]
    /\ pieIndex' = [pieIndex EXCEPT ![w] = 0]
    /\ pieNumber' = [pieNumber EXCEPT ![w] = 0]
    /\ pc' = [pc EXCEPT ![w] = "test"]
    /\ UNCHANGED << numDigitsPie, numThreads, pcMain, i, piQueue, queueMutex,
                    pieMap, cout, crashed, popLog, insLog, lastCall, prevCall,
                    unmatched >>

Worker(w) ==
    \/ Test(w) \/ Mark(w) \/ Lock(w) \/ Front(w) \/ Pop(w) \/ PopCrash(w)
    \/ Unlock(w) \/ Compute(w) \/ HLock(w) \/ Insert(w) \/ HUnlock(w)

Next == Main \/ \E w \in Workers : Worker(w)

Spec == Init /\ [][Next]_vars

\* Every thread that can take a step eventually takes one; a thread waiting
\* for a mutex that is released again and again eventually gets it.
FairSpec ==
    /\ Spec
    /\ WF_vars(Main)
    /\ \A w \in Workers : SF_vars(Worker(w))

(* ------------------- PieTable used on its own ------------------------- *)
TableKeys == 1 .. MaxDigits
TableValues == 0 .. MaxValue

\* a PieTable right after construction, no thread running
TableInit ==
    /\ numDigitsPie = 1
    /\ numThreads = 0
    /\ pcMain = "table"
    /\ i = 0
    /\ piQueue = EmptyQueue
    /\ queueMutex = {}
    /\ pieMap = EmptyMap
    /\ hashMutex = {}
    /\ pc = [w \in Workers |-> "idle"]
    /\ taskTemp = [w \in Workers |-> 0]
    /\ pieIndex = [w \in Workers |-> 0]
    /\ pieNumber = [w \in Workers |-> 0]
    /\ cout = << >>
    /\ crashed = FALSE
    /\ popLog = << >>
    /\ insLog = << >>
    /\ lastCall = NoCall
    /\ prevCall = NoCall
    /\ unmatched = [w \in Workers |-> 0]

\* a call pieTable.insertValue(key, value)
TableInsert ==
    \E key \in TableKeys, value \in TableValues :
        /\ pieMap' = insertValue(pieMap, key, value)
        /\ lastCall' = InsertCall(pieMap, key, value)
        /\ prevCall' = lastCall
        /\ UNCHANGED << numDigitsPie, numThreads, pcMain, i, piQueue,
                        queueMutex, hashMutex, pc, taskTemp, pieIndex,
                        pieNumber, cout, crashed, popLog, insLog, unmatched >>

\* a call pieTable.get(index)
TableGet ==
    \E index \in TableKeys :
        /\ pieMap' = get(pieMap, index).map
        /\ lastCall' = GetCall(pieMap, index)
        /\ prevCall' = lastCall
        /\ UNCHANGED << numDigitsPie, numThreads, pcMain, i, piQueue,
                        queueMutex, hashMutex, pc, taskTemp, pieIndex,
                        pieNumber, cout, crashed, popLog, insLog, unmatched >>

TableNext == TableInsert \/ TableGet

SpecTable == TableInit /\ [][TableNext]_vars

(* ------------------------------ properties ---------------------------- *)
\* the indices main pushed: 1 .. numDigitsPie - 1, in this order
Pushed == 1 .. (numDigitsPie - 1)

\* main is past the join loop
Joined == pcMain \in {"render", "done"}

IsValidPop(e) == e.valid

\* the pops that removed a task, in the order they took effect
ValidPops == SelectSeq(popLog, IsValidPop)

\* the digits written after the "\n3." prefix and before the final newline
Rendered ==
    LET p == CHOOSE n \in 1 .. Len(cout) : cout[n] = "\n3."
    IN  SubSeq(cout, p + 1, Len(cout) - 1)

\* C1: a worker executes getTask()/pop() only when the queue holds at least
\* one task (the emptiness test and the removal act as one step).
C1_PopOnlyFromNonEmpty ==
    \A w \in Workers : pc[w] \in {"front", "pop"} => piQueue.items # << >>

\* C2: the indices obtained by the workers are the pushed indices, each
\* exactly once: none obtained twice, none that was not pushed, and none
\* left unobtained once all workers have terminated.
C2_EachIndexObtainedOnce ==
    /\ \A m, n \in DOMAIN popLog : m # n => popLog[m].id # popLog[n].id
    /\ \A n \in DOMAIN popLog : popLog[n].id \in Pushed
    /\ (Joined /\ numThreads >= 1) =>
           { popLog[n].id : n \in DOMAIN popLog } = Pushed

\* C3: once every worker is joined the table holds exactly numDigitsPie
\* entries, one for each index of 1..numDigitsPie.
C3_TableHasAllDigits ==
    (Joined /\ numThreads >= 1) => DOMAIN pieMap = 1 .. numDigitsPie

\* C4: after the join every pushed index i is a key of the table and holds
\* computePiDigit(i); no key holds the digit of another index.
C4_TableHoldsOwnDigits ==
    (Joined /\ numThreads >= 1) =>
        /\ \A k \in Pushed : k \in DOMAIN pieMap
        /\ \A k \in DOMAIN pieMap : pieMap[k] = computePiDigit(k)

C4_Witness ==
    /\ pcMain = "render" /\ i = 1
    /\ numThreads = 2 /\ numDigitsPie = 3
    /\ insLog = << 2, 1 >>

\* C5: the final output lists the table's digits in ascending index order,
\* and is the same sequence whatever the order the workers completed in.
C5_RenderedInIndexOrder ==
    pcMain = "done" =>
        /\ Len(Rendered) = numDigitsPie - 1
        /\ \A k \in Pushed : Rendered[k] = ToString(pieMap[k])
        /\ numThreads >= 1 =>
               \A k \in Pushed : Rendered[k] = ToString(computePiDigit(k))

C5_Witness ==
    /\ pcMain = "done"
    /\ insLog = << 2, 1 >>
    /\ Rendered = << "1", "4" >>

\* C6: main reads the table and writes the final output only after every
\* started worker has terminated: no get() runs while a worker can insert.
C6_RenderAfterAllWorkersDone ==
    (Joined \/ lastCall.op = "get" \/ (\E n \in DOMAIN cout : cout[n] # "."))
        => /\ \A w \in Workers : pc[w] \in {"idle", "done"}
           /\ \A w \in 0 .. (numThreads - 1) : pc[w] = "done"

C6_Witness ==
    /\ pcMain = "render" /\ lastCall.op = "get"
    /\ numThreads = 2
    /\ insLog = << 2, 1 >>

\* C7: under fair scheduling, with at least one worker, every worker
\* terminates, the join returns and the program reaches its final output.
C7_ProgramTerminates ==
    (numThreads >= 1) => <>(pcMain = "done")

\* C8: the k-th pop that removes a task returns the k-th task pushed, so the
\* removed indices are 1, 2, 3, ... in the order the pops take effect.
C8_FifoAssignment ==
    \A k \in DOMAIN ValidPops : ValidPops[k].id = k

C8_Witness ==
    /\ Len(ValidPops) = 2
    /\ \E v, w \in Workers :
           /\ pc[v] = "compute" /\ taskTemp[v] = 1
           /\ pc[w] = "unlock" /\ taskTemp[w] = 2

\* C9: get(index) with no entry for index fails with KeyNotFound: it returns
\* no digit and adds no entry for index.
C9_GetMissingFails ==
    (lastCall.op = "get" /\ ~lastCall.had) =>
        /\ lastCall.threw
        /\ lastCall.key \notin DOMAIN pieMap

\* C10 (as stated): after insertValue(k, v), get(k) yields v, whether k was
\* absent or already held a different value.
C10_InsertOverwrites ==
    lastCall.op = "insert" => get(pieMap, lastCall.key).ret = lastCall.value

\* C10 (amended): after insertValue(k, v), get(k) yields v when k was absent
\* and the value k already held when it was present (no overwrite).
C10_InsertKeepsExisting ==
    lastCall.op = "insert" =>
        get(pieMap, lastCall.key).ret =
            IF lastCall.had THEN lastCall.old ELSE lastCall.value

C10_Witness ==
    /\ lastCall.op = "insert"
    /\ lastCall.had
    /\ lastCall.old # lastCall.value

\* the number of progress markers written so far
Markers == Cardinality({ n \in DOMAIN cout : cout[n] = "." })

\* the workers whose thread function is running
Live == { w \in Workers : pc[w] \notin {"idle", "done"} }

\* worker w waits for a mutex that another thread holds
Blocked(w) ==
    \/ pc[w] = "lock" /\ queueMutex # {}
    \/ pc[w] = "hlock" /\ hashMutex # {}

\* C11: when the parallelism query reports 0 the pool still has at least one
\* worker, and every queued task is dequeued and its result stored by a
\* worker before the output is rendered.
C11_FallbackPoolRuns ==
    (numThreads = 0 /\ Joined) =>
        /\ \E w \in Workers : pc[w] # "idle"
        /\ \A k \in Pushed : \E n \in DOMAIN insLog : insLog[n] = k

\* C12: a worker has written at most one marker more than the tasks it has
\* removed from the queue; once all workers have terminated the markers are
\* as many as the tasks pushed; no marker follows the final output's prefix.
C12_OneMarkerPerTask ==
    /\ \A w \in Workers : unmatched[w] <= 1
    /\ (Joined /\ numThreads >= 1) => Markers = Cardinality(Pushed)
    /\ \A m, n \in DOMAIN cout : (cout[m] = "\n3." /\ m < n) => cout[n] # "."

\* C13: after an insert that added the entry, get returns the inserted
\* value, and a second get of the same index right after the first returns
\* the same value.
C13_GetIdempotent ==
    /\ (prevCall.op = "insert" /\ ~prevCall.had /\ lastCall.op = "get"
            /\ lastCall.key = prevCall.key)
           => lastCall.ret = prevCall.value
    /\ (prevCall.op = "get" /\ lastCall.op = "get"
            /\ lastCall.key = prevCall.key)
           => lastCall.ret = prevCall.ret

C13_Witness ==
    /\ prevCall.op = "get" /\ lastCall.op = "get"
    /\ lastCall.key = prevCall.key
    /\ prevCall.had
    /\ lastCall.ret = MaxValue

\* C14: a worker that is about to test, read or pop the queue's container
\* holds the queue mutex, so no worker evaluates isEmpty() while another
\* worker is inside the pop.
C14_QueueAccessUnderMutex ==
    /\ \A w \in Workers :
           pc[w] \in {"test", "front", "pop"} => w \in queueMutex
    /\ \A v, w \in Workers :
           ~(v # w /\ pc[v] = "test" /\ pc[w] = "pop")

\* C15: no thread holds the queue mutex and the table mutex at the same time.
C15_NeverBothMutexes ==
    queueMutex \cap hashMutex = {}

C15_Witness ==
    /\ queueMutex # {} /\ hashMutex # {}
    /\ \E w \in Workers : pc[w] = "insert"

\* C16: a worker inside the digit computation holds neither the queue mutex
\* nor the table mutex.
C16_ComputeOutsideLocks ==
    \A w \in Workers :
        pc[w] = "compute" => w \notin (queueMutex \cup hashMutex)

C16_Witness ==
    \E v, w \in Workers :
        /\ v # w
        /\ pc[v] = "compute" /\ pc[w] = "compute"
        /\ taskTemp[v] = 1 /\ taskTemp[w] = 2

\* C17: no key is passed to insertValue a second time during the run.
C17_EachIndexInsertedOnce ==
    \A m, n \in DOMAIN insLog : m # n => insLog[m] # insLog[n]

\* C18: every step that makes the queue longer is taken while no worker
\* thread has been created; once a worker exists the queue never grows.
C18_PopulatedBeforeWorkers ==
    [][ Len(piQueue'.items) > Len(piQueue.items)
            => \A w \in Workers : pc[w] = "idle" ]_vars

C18_Witness ==
    /\ \E w \in Workers : pc[w] = "mark"
    /\ Len(piQueue.items) = 2
    /\ numThreads = 2

\* C19: every task a worker has taken is either in flight at a worker
\* (taken, being computed, or being inserted under its own index
\* with its own digit) or already in the table; a worker that is testing
\* the queue or has terminated has nothing in flight.
C19_TaskThenComputeThenInsert ==
    /\ \A n \in DOMAIN popLog :
           \/ popLog[n].id \in DOMAIN pieMap
           \/ \E w \in Workers :
                  /\ pc[w] \in {"unlock", "compute", "hlock", "insert"}
                  /\ taskTemp[w] = popLog[n].id
    /\ \A w \in Workers :
           /\ pc[w] \in {"hlock", "insert"} =>
                  /\ pieIndex[w] = taskTemp[w]
                  /\ pieNumber[w] = computePiDigit(taskTemp[w])
           /\ pc[w] = "hunlock" => taskTemp[w] \in DOMAIN pieMap

C19_Witness ==
    /\ \E w \in Workers : pc[w] = "done"
    /\ \E w \in Workers : pc[w] = "insert" /\ pieIndex[w] = 2
    /\ 1 \in DOMAIN pieMap

\* C20: a worker holds the queue mutex exactly between its lock() and its
\* unlock() and the table mutex exactly between its lock() and its unlock(),
\* so it never terminates or locks again while holding one; and while the
\* process runs, the live workers are never all waiting for a mutex.
C20_LockDiscipline ==
    /\ \A w \in Workers :
           /\ w \in queueMutex <=> pc[w] \in {"front", "pop", "unlock"}
           /\ w \in hashMutex <=> pc[w] \in {"insert", "hunlock"}
    /\ (~crashed /\ Live # {}) => \E w \in Live : ~Blocked(w)

C20_Witness ==
    \E v, w \in Workers :
        /\ Blocked(v) /\ pc[v] = "lock"
        /\ queueMutex = {w} /\ pc[w] = "unlock"

====
